---------------------------- MODULE Spec2Model ----------------------------
(***************************************************************************)
(* Model of the notebook 1-generalizability.ipynb: the sequence of code    *)
(* cells that load the generalizability data, compute the IPSW,            *)
(* g-transport and AIPSW point estimates and run the paired bootstrap for  *)
(* each of them, first on the randomized data and then on the             *)
(* observational (confounded) data.                                        *)
(*                                                                         *)
(* The variables are the notebook's global names.  A DataFrame is a        *)
(* sequence of rows; a row is a function from column names to values.      *)
(* Floats are fixed-point numbers in thousandths (the resolution of the    *)
(* np.round(., 3) the notebook prints with); NaN is a value of its own     *)
(* that every arithmetic operation propagates.                             *)
(*                                                                         *)
(* The estimators (IPSW, GTransportFormula, AIPSW, IPTW) belong to the     *)
(* zEpid library, which the notebook only calls.  Their regression fits    *)
(* are modelled by the saturated (cell-mean) fit over the covariates the   *)
(* model formula names, following sections 4.1-4.4 of the specification.   *)
(***************************************************************************)
EXTENDS Integers, Sequences, FiniteSets, TLC

\* ------------------------------------------------------------------ bounds
\* Number of records of the data set with S = 1 (486 in the shipped data).
NS == 4
\* Number of records of the data set with S = 0 (2514 in the shipped data).
NT == 2
\* Number of states the global random generator can start in.
NumSeeds == 2

\* ------------------------------------------------------- program constants
\* for i in range(200)
B == 200
\* missing value / not-a-number of a float column
NaN == -1000000

\* ------------------------------------------------------------- fixed point
IsNaN(x) == x = NaN
Add(x, y) == IF IsNaN(x) \/ IsNaN(y) THEN NaN ELSE x + y
Sub(x, y) == IF IsNaN(x) \/ IsNaN(y) THEN NaN ELSE x - y
\* x * y of two thousandths, in thousandths
Mul(x, y) == IF IsNaN(x) \/ IsNaN(y) THEN NaN ELSE (x * y) \div 1000
\* num / den of two numbers on the same scale, in thousandths; 0/0 is NaN
Ratio(num, den) ==
    IF IsNaN(num) \/ IsNaN(den) \/ den = 0 THEN NaN ELSE (1000 * num) \div den

RECURSIVE SumBetween(_, _, _)
\* xs[lo] + ... + xs[hi], halving the range
SumBetween(xs, lo, hi) ==
    IF lo > hi THEN 0
    ELSE IF lo = hi THEN xs[lo]
    ELSE LET mid == (lo + hi) \div 2
         IN  Add(SumBetween(xs, lo, mid), SumBetween(xs, mid + 1, hi))

\* the sum of a sequence of numbers; NaN when one of them is NaN
SeqSum(xs) == SumBetween(xs, 1, Len(xs))

RECURSIVE SqrtBetween(_, _, _)
\* the integer r with lo <= r <= hi and r*r <= v < (r+1)*(r+1)
SqrtBetween(v, lo, hi) ==
    IF lo = hi THEN lo
    ELSE LET mid == (lo + hi + 1) \div 2
         IN  IF mid * mid <= v THEN SqrtBetween(v, mid, hi)
             ELSE SqrtBetween(v, lo, mid - 1)

\* np.sqrt of a number in millionths (a product of two thousandths),
\* in thousandths
Sqrt(v) == IF IsNaN(v) \/ v < 0 THEN NaN ELSE SqrtBetween(v, 0, 40000)

\* -------------------------------------------------------------- DataFrames
Columns(d) == IF d = <<>> THEN {} ELSE DOMAIN d[1]
\* df.loc[df[col] == v]
Loc(d, col, v) == LET Keep(r) == r[col] = v IN SelectSeq(d, Keep)
\* df[col] = values (one value per row, by position)
SetColumn(d, col, values) ==
    [k \in 1..Len(d) |->
        [c \in (DOMAIN d[k]) \cup {col} |-> IF c = col THEN values[k] ELSE d[k][c]]]
\* a row widened to the columns cols; a column it does not have is NaN
Widen(r, cols) == [c \in cols |-> IF c \in DOMAIN r THEN r[c] ELSE NaN]
\* mutant of Concat: pd.concat([a, b]).fillna(0)
ConcatFillna(a, b) ==
    LET cols == Columns(a) \cup Columns(b)
        Fill(r) == [c \in cols |-> IF c \in DOMAIN r /\ ~IsNaN(r[c]) THEN r[c] ELSE 0]
    IN  [k \in 1..(Len(a) + Len(b)) |->
            IF k <= Len(a) THEN Fill(a[k]) ELSE Fill(b[k - Len(a)])]

\* pd.concat([a, b]): the rows of a, then the rows of b, over the union of the
\* two column sets (sort=False and ignore_index only touch labels and order of
\* columns, which the model does not keep)
Concat(a, b) ==
    LET cols == Columns(a) \cup Columns(b)
    IN  [k \in 1..(Len(a) + Len(b)) |->
            IF k <= Len(a) THEN Widen(a[k], cols) ELSE Widen(b[k - Len(a)], cols)]
Observed(r) == ~IsNaN(r["Y"]) /\ ~IsNaN(r["A"])
Unobserved(r) == IsNaN(r["Y"]) /\ IsNaN(r["A"])

\* ---------------------------------------------------------- the data files
\* The data zEpid ships is an input of the notebook.  A world fixes it:
\* yk sample records have Y = 1, and het says whether the covariates vary.
Worlds == [yk : 0..NS, het : 0..1]

CovL(w, j) == IF w.het = 1 /\ j % 4 = 0 THEN 1 ELSE 0

SampleRecord(w, confounding, j) ==
    [id |-> NT + j, S |-> 1,
     Y |-> IF j <= w.yk THEN 1 ELSE 0,
     A |-> IF confounding THEN 1 - (((j - 1) \div 2) % 2) ELSE j % 2,
     L |-> CovL(w, j), W |-> 2 * CovL(w, j)]

TargetRecord(w, t) ==
    [id |-> t, S |-> 0, Y |-> NaN, A |-> NaN,
     L |-> IF w.het = 1 THEN t % 2 ELSE 0, W |-> IF w.het = 1 THEN 2 * (t % 2) ELSE 0]

\* load_generalize_data(confounding): NS + NT records, Y and A present on the
\* S = 1 records only
load_generalize_data(w, confounding) ==
    [k \in 1..(NT + NS) |->
        IF k <= NT THEN TargetRecord(w, k) ELSE SampleRecord(w, confounding, k - NT)]

\* df['W_sq'] = df['W']**2
WithWsq(d) == SetColumn(d, "W_sq", [k \in 1..Len(d) |-> d[k]["W"] * d[k]["W"]])

\* ------------------------------------------------ the global random state
\* numpy's global generator, which DataFrame.sample draws from when it is
\* given no random_state: a hidden state that every draw advances
RandNext(s) == (21 * s + 41) % 64
\* the position (1..n) the generator state s selects among n rows
RandIndex(s, n) == ((s * n) \div 64) + 1

RECURSIVE Draws(_, _, _)
\* the k positions drawn from n rows starting in generator state s
Draws(s, n, k) ==
    IF k = 0 THEN <<>>
    ELSE <<RandIndex(RandNext(s), n)>> \o Draws(RandNext(s), n, k - 1)

RECURSIVE Advance(_, _)
Advance(s, k) == IF k = 0 THEN s ELSE Advance(RandNext(s), k - 1)

\* the rows of d at the positions idx
Take(d, idx) == [k \in 1..Len(idx) |-> d[idx[k]]]
\* d.sample(n=n, replace=True) in generator state s
Sample(d, n, s) == Take(d, Draws(s, Len(d), n))

\* ------------------------------------------------------------ zEpid models
\* the covariates a model formula names (the treatment A aside)
Covariates(formula) ==
    CASE formula = "L + W + W_sq + L:W + L:W_sq" -> {"L", "W", "W_sq"}
      [] formula = "L + W + L:W" -> {"L", "W"}
      [] formula = "L + W + W_sq" -> {"L", "W", "W_sq"}
      [] formula = "A + L + W + W_sq + A:L + A:W + A:W_sq" -> {"L", "W", "W_sq"}
      [] formula = "A + L + W + W_sq + A:L" -> {"L", "W", "W_sq"}
      [] formula = "1" -> {}
      [] formula = "A" -> {}

\* the covariate pattern of row r under a formula
Cell(r, formula) == [c \in Covariates(formula) |-> r[c]]

\* the auxiliary weight of row r: the column named by weights=, or 1
AuxWeight(r, weights) == IF weights = "None" THEN 1000 ELSE r[weights]

\* mutant of PrSample: the sampling model fitted on the sample records only
PrSampleOfSample(d, formula, r) ==
    LET InCellSample(x) == Cell(x, formula) = Cell(r, formula) /\ x["S"] = 1
    IN  Ratio(Len(SelectSeq(d, InCellSample)), Len(SelectSeq(d, InCellSample)))

\* IPSW: Pr(S = 1 | covariates) of row r's cell, fitted on every record of d
PrSample(d, formula, r) ==
    LET InCell(x) == Cell(x, formula) = Cell(r, formula)
        InCellSample(x) == InCell(x) /\ x["S"] = 1
    IN  Ratio(Len(SelectSeq(d, InCellSample)), Len(SelectSeq(d, InCell)))

\* the sampling weight (1 - p) / p of sample row r, times the auxiliary weight
SamplingWeight(d, formula, weights, r) ==
    LET p == PrSample(d, formula, r)
    IN  Mul(Ratio(1000 - p, p), AuxWeight(r, weights))

\* weighted mean of the outcome over the sample rows with treatment a
WeightedRisk(d, formula, weights, a) ==
    LET Arm(x) == x["S"] = 1 /\ x["A"] = a
        arm == SelectSeq(d, Arm)
        w == [k \in 1..Len(arm) |-> SamplingWeight(d, formula, weights, arm[k])]
        wy == [k \in 1..Len(arm) |-> IF IsNaN(w[k]) THEN NaN ELSE w[k] * arm[k]["Y"]]
    IN  Ratio(SeqSum(wy), SeqSum(w))

\* IPSW(...).fit().risk_difference
IPSW_risk_difference(d, formula, weights) ==
    Sub(WeightedRisk(d, formula, weights, 1), WeightedRisk(d, formula, weights, 0))
\* IPSW(...).fit().risk_ratio
IPSW_risk_ratio(d, formula, weights) ==
    Ratio(WeightedRisk(d, formula, weights, 1), WeightedRisk(d, formula, weights, 0))

\* outcome model fitted on the sample rows: predicted outcome of row r with
\* the treatment set to a
PredictY(d, formula, a, r) ==
    LET Train(x) == x["S"] = 1 /\ x["A"] = a /\ Cell(x, formula) = Cell(r, formula)
        train == SelectSeq(d, Train)
    IN  Ratio(SeqSum([k \in 1..Len(train) |-> train[k]["Y"]]), Len(train))

\* mutant of StandardizedRisk: the predictions averaged over every record,
\* sample and target
StandardizedRiskAll(d, formula, a) ==
    LET pred == [k \in 1..Len(d) |-> PredictY(d, formula, a, d[k])]
    IN  IF Len(d) = 0 \/ IsNaN(SeqSum(pred)) THEN NaN
        ELSE SeqSum(pred) \div Len(d)

\* mean predicted outcome over the target rows with the treatment set to a
StandardizedRisk(d, formula, a) ==
    LET target == Loc(d, "S", 0)
        pred == [k \in 1..Len(target) |-> PredictY(d, formula, a, target[k])]
    IN  IF Len(target) = 0 \/ IsNaN(SeqSum(pred)) THEN NaN
        ELSE SeqSum(pred) \div Len(target)

\* GTransportFormula(...).fit().risk_difference
GTransport_risk_difference(d, formula) ==
    Sub(StandardizedRisk(d, formula, 1), StandardizedRisk(d, formula, 0))
\* GTransportFormula(...).fit().risk_ratio
GTransport_risk_ratio(d, formula) ==
    Ratio(StandardizedRisk(d, formula, 1), StandardizedRisk(d, formula, 0))

\* mutant of AugmentedRisk: the residual correction left out
AugmentedRiskUncorrected(d, wformula, yformula, weights, a) ==
    StandardizedRisk(d, yformula, a)

\* AIPSW arm: weighted residual of the sample rows plus the standardized risk
AugmentedRisk(d, wformula, yformula, weights, a) ==
    LET Arm(x) == x["S"] = 1 /\ x["A"] = a
        arm == SelectSeq(d, Arm)
        w == [k \in 1..Len(arm) |-> SamplingWeight(d, wformula, weights, arm[k])]
        res == [k \in 1..Len(arm) |->
                   Mul(w[k], Sub(1000 * arm[k]["Y"], PredictY(d, yformula, a, arm[k])))]
    IN  Add(Ratio(SeqSum(res), SeqSum(w)), StandardizedRisk(d, yformula, a))

\* AIPSW(...).fit().risk_difference
AIPSW_risk_difference(d, wformula, yformula, weights) ==
    Sub(AugmentedRisk(d, wformula, yformula, weights, 1),
        AugmentedRisk(d, wformula, yformula, weights, 0))
\* AIPSW(...).fit().risk_ratio
AIPSW_risk_ratio(d, wformula, yformula, weights) ==
    Ratio(AugmentedRisk(d, wformula, yformula, weights, 1),
          AugmentedRisk(d, wformula, yformula, weights, 0))

\* IPTW(d, ...).treatment_model(formula).iptw: the stabilized weight
\* Pr(A = a) / Pr(A = a | covariates) of every row of d, by position
IPTW_iptw(d, formula) ==
    [k \in 1..Len(d) |->
        LET r == d[k]
            SameA(x) == x["A"] = r["A"]
            InCell(x) == Cell(x, formula) = Cell(r, formula)
            Both(x) == SameA(x) /\ InCell(x)
        IN  Ratio(Ratio(Len(SelectSeq(d, SameA)), Len(d)),
                  Ratio(Len(SelectSeq(d, Both)), Len(SelectSeq(d, InCell))))]

\* --------------------------------------------------------------- np.std
\* np.std(xs, ddof=1): the mean, the squared deviations from it, their sum
\* over n - 1, the root; a NaN among xs makes the result NaN
Std(xs) ==
    LET n == Len(xs)
        total == SeqSum(xs)
    IN  IF n < 2 \/ IsNaN(total) THEN NaN
        ELSE LET mean == total \div n
                 sq == [k \in 1..n |-> (xs[k] - mean) * (xs[k] - mean)]
             IN  Sqrt(SeqSum(sq) \div (n - 1))

\* 1.96 * se
HalfWidth(s) == IF IsNaN(s) THEN NaN ELSE (196 * s) \div 100

\* RiskDifference().fit(d, exposure='A', outcome='Y'): the crude difference
Crude_risk_difference(d) ==
    LET Arm1(x) == x["A"] = 1
        Arm0(x) == x["A"] = 0
        a1 == SelectSeq(d, Arm1)
        a0 == SelectSeq(d, Arm0)
    IN  Sub(Ratio(SeqSum([k \in 1..Len(a1) |-> a1[k]["Y"]]), Len(a1)),
            Ratio(SeqSum([k \in 1..Len(a0) |-> a0[k]["Y"]]), Len(a0)))

\* the estimator object of kind est fitted on d
Fit(est, d, wmodel, ymodel, weights) ==
    [kind |-> est, df |-> d, wmodel |-> wmodel, ymodel |-> ymodel, weights |-> weights,
     risk_difference |->
        CASE est = "IPSW" -> IPSW_risk_difference(d, wmodel, weights)
          [] est = "GTransportFormula" -> GTransport_risk_difference(d, ymodel)
          [] est = "AIPSW" -> AIPSW_risk_difference(d, wmodel, ymodel, weights),
     risk_ratio |->
        CASE est = "IPSW" -> IPSW_risk_ratio(d, wmodel, weights)
          [] est = "GTransportFormula" -> GTransport_risk_ratio(d, ymodel)
          [] est = "AIPSW" -> AIPSW_risk_ratio(d, wmodel, ymodel, weights)]

\* IPTW(d, treatment='A', outcome='Y') with its treatment model fitted
FitIPTW(d, formula) ==
    [kind |-> "IPTW", df |-> d, wmodel |-> formula, ymodel |-> "None",
     weights |-> "None", iptw |-> IPTW_iptw(d, formula)]

\* a name no cell has bound yet
Unbound == [kind |-> "Unbound"]

\* ------------------------------------------------------ the notebook cells
LoadRCT == [op |-> "load", confounding |-> FALSE]
SATE == [op |-> "sate"]
PointIPSW_RCT ==
    [op |-> "point", est |-> "IPSW", wmodel |-> "L + W + W_sq + L:W + L:W_sq",
     ymodel |-> "None", weights |-> "None", bind_rd |-> TRUE]
BootIPSW_RCT ==
    [op |-> "boot", est |-> "IPSW", wmodel |-> "L + W + L:W",
     ymodel |-> "None", weights |-> "None", reweight |-> FALSE]
PointGTF_RCT ==
    [op |-> "point", est |-> "GTransportFormula", wmodel |-> "None",
     ymodel |-> "A + L + W + W_sq + A:L + A:W + A:W_sq", weights |-> "None",
     bind_rd |-> TRUE]
BootGTF_RCT ==
    [op |-> "boot", est |-> "GTransportFormula", wmodel |-> "None",
     ymodel |-> "A + L + W + W_sq + A:L + A:W + A:W_sq", weights |-> "None",
     reweight |-> FALSE]
PointAIPSW_RCT ==
    [op |-> "point", est |-> "AIPSW", wmodel |-> "L + W + W_sq + L:W + L:W_sq",
     ymodel |-> "A + L + W + W_sq + A:L + A:W + A:W_sq", weights |-> "None",
     bind_rd |-> TRUE]
BootAIPSW_RCT ==
    [op |-> "boot", est |-> "AIPSW", wmodel |-> "L + W + W_sq + L:W + L:W_sq",
     ymodel |-> "A + L + W + W_sq + A:L + A:W + A:W_sq", weights |-> "None",
     reweight |-> FALSE]
LoadObs == [op |-> "load", confounding |-> TRUE]
MergeIPTW == [op |-> "iptw", wmodel |-> "L + W + W_sq"]
PointIPSW_Obs ==
    [op |-> "point", est |-> "IPSW", wmodel |-> "L + W + W_sq + L:W + L:W_sq",
     ymodel |-> "None", weights |-> "iptw", bind_rd |-> TRUE]
BootIPSW_Obs ==
    [op |-> "boot", est |-> "IPSW", wmodel |-> "L + W + L:W",
     ymodel |-> "None", weights |-> "iptw", reweight |-> TRUE]
PointGTF_Obs ==
    [op |-> "point", est |-> "GTransportFormula", wmodel |-> "None",
     ymodel |-> "A + L + W + W_sq + A:L", weights |-> "None", bind_rd |-> FALSE]
PointAIPSW_Obs ==
    [op |-> "point", est |-> "AIPSW", wmodel |-> "L + W + W_sq + L:W + L:W_sq",
     ymodel |-> "A + L + W + W_sq + A:L", weights |-> "iptw", bind_rd |-> FALSE]
BootAIPSW_Obs ==
    [op |-> "boot", est |-> "AIPSW", wmodel |-> "L + W + W_sq + L:W + L:W_sq",
     ymodel |-> "A + L + W + W_sq + A:L", weights |-> "iptw", reweight |-> TRUE]

\* the code cells in the order the notebook runs them
Notebook ==
    << LoadRCT, SATE, PointIPSW_RCT, BootIPSW_RCT, PointGTF_RCT, BootGTF_RCT,
       PointAIPSW_RCT, BootAIPSW_RCT, LoadObs, MergeIPTW, PointIPSW_Obs,
       BootIPSW_Obs, PointGTF_Obs, PointAIPSW_Obs, BootAIPSW_Obs >>

\* the treatment model of the IPTW step inside a bootstrap replicate
BootIPTWModel == "L + W + W_sq"

\* ------------------------------------------------------------------ state
VARIABLES
    disk,      \* the data files load_generalize_data reads (a world)
    rng,       \* state of numpy's global random generator
    pc,        \* the cell being run and the step within it
    it,        \* iterations the range(200) iterator of the running loop has given
    df, dfs, dft, dfss, dftp, dfb, dfse,   \* the DataFrames the cells bind
    ipt, ipsw, gtf, aipw,                  \* the estimator objects the cells bind
    rd,        \* the point estimate the confidence bounds are built around
    rd_bs,     \* the list of replicate risk differences
    i,         \* the loop variable
    se,        \* np.std(rd_bs, ddof=1)
    printed,   \* the confidence bounds printed so far, per bootstrap cell
    rd_cell,   \* history: the cell whose statement last bound rd
    point,     \* history: the estimator object of the last point-estimate cell
    draws,     \* history: the row positions the running replicate drew
    lost       \* history: replicates of the running loop whose sample resample
               \* lacked a treatment level

vars == << disk, rng, pc, it, df, dfs, dft, dfss, dftp, dfb, dfse, ipt, ipsw, gtf,
           aipw, rd, rd_bs, i, se, printed, rd_cell, point, draws, lost >>

frames == << df, dfs, dft, dfss, dftp, dfb, dfse >>
objects == << ipt, ipsw, gtf, aipw >>

Done == pc.cell > Len(Notebook)
Cur == Notebook[pc.cell]
At(op, step) == ~Done /\ Cur.op = op /\ pc.step = step
NextCell == [cell |-> pc.cell + 1, step |-> "start"]

Init ==
    /\ disk \in Worlds
    /\ rng \in 0..(NumSeeds - 1)
    /\ pc = [cell |-> 1, step |-> "start"]
    /\ it = 0
    /\ df = <<>> /\ dfs = <<>> /\ dft = <<>> /\ dfss = <<>> /\ dftp = <<>>
    /\ dfb = <<>> /\ dfse = <<>>
    /\ ipt = Unbound /\ ipsw = Unbound /\ gtf = Unbound /\ aipw = Unbound
    /\ rd = Unbound /\ rd_bs = <<>> /\ i = Unbound /\ se = Unbound
    /\ printed = <<>>
    /\ rd_cell = 0 /\ point = Unbound /\ draws = <<>> /\ lost = 0

\* df = load_generalize_data(...); df['W_sq'] = df['W']**2
Load ==
    /\ At("load", "start")
    /\ df' = WithWsq(load_generalize_data(disk, Cur.confounding))
    /\ pc' = NextCell
    /\ UNCHANGED << disk, rng, it, dfs, dft, dfss, dftp, dfb, dfse, objects, rd,
                    rd_bs, i, se, printed, rd_cell, point, draws, lost >>

\* dfs = df.loc[df['S'] == 1].copy(); rd = RiskDifference(); rd.fit(dfs, ...)
SampleEffect ==
    /\ At("sate", "start")
    /\ dfs' = Loc(df, "S", 1)
    /\ rd' = [kind |-> "RiskDifference", df |-> dfs',
              risk_difference |-> Crude_risk_difference(dfs')]
    /\ rd_cell' = pc.cell
    /\ pc' = NextCell
    /\ UNCHANGED << disk, rng, it, df, dft, dfss, dftp, dfb, dfse, objects,
                    rd_bs, i, se, printed, point, draws, lost >>

\* the estimator names after a cell of configuration c has bound its object
Bind(c, obj) ==
    /\ ipsw' = IF c.est = "IPSW" THEN obj ELSE ipsw
    /\ gtf' = IF c.est = "GTransportFormula" THEN obj ELSE gtf
    /\ aipw' = IF c.est = "AIPSW" THEN obj ELSE aipw

\* mutant of PointEstimate: a fit that starts from a random draw, so that the
\* estimate moves with the state of the global generator
PointEstimateSeeded ==
    /\ At("point", "start")
    /\ LET fit == Fit(Cur.est, df, Cur.wmodel, Cur.ymodel, Cur.weights)
           obj == [fit EXCEPT !.risk_difference = Add(@, rng % 2)]
       IN  /\ Bind(Cur, obj)
           /\ point' = obj
           /\ rd' = IF Cur.bind_rd THEN obj.risk_difference ELSE rd
           /\ rd_cell' = IF Cur.bind_rd THEN pc.cell ELSE rd_cell
    /\ pc' = NextCell
    /\ UNCHANGED << disk, rng, it, frames, ipt, rd_bs, i, se, printed, draws, lost >>

\* est = Estimator(df, ...); est.<models>(...); est.fit(); est.summary()
\* and, in the cells that have the statement, rd = est.risk_difference
PointEstimate ==
    /\ At("point", "start")
    /\ LET obj == Fit(Cur.est, df, Cur.wmodel, Cur.ymodel, Cur.weights)
       IN  /\ Bind(Cur, obj)
           /\ point' = obj
           /\ rd' = IF Cur.bind_rd THEN obj.risk_difference ELSE rd
           /\ rd_cell' = IF Cur.bind_rd THEN pc.cell ELSE rd_cell
    /\ pc' = NextCell
    /\ UNCHANGED << disk, rng, it, frames, ipt, rd_bs, i, se, printed, draws, lost >>

\* mutant of TreatmentModelInput: the treatment model fitted on every record
TreatmentModelInputAll(d) == d

\* dfs = df.loc[df['S'] == 1].copy(): the records the treatment model is fitted on
TreatmentModelInput(d) == Loc(d, "S", 1)

\* the cell that computes the treatment weights of the observational data:
\* dfs = df.loc[df['S'] == 1].copy(); ipt = IPTW(dfs, ...);
\* ipt.treatment_model(...); dfs['iptw'] = ipt.iptw;
\* df = pd.concat([dfs, df.loc[df['S'] == 0]], ignore_index=True, sort=False)
TreatmentWeights ==
    /\ At("iptw", "start")
    /\ ipt' = FitIPTW(TreatmentModelInput(df), Cur.wmodel)
    /\ dfs' = SetColumn(TreatmentModelInput(df), "iptw", ipt'.iptw)
    /\ df' = Concat(dfs', Loc(df, "S", 0))
    /\ pc' = NextCell
    /\ UNCHANGED << disk, rng, it, dft, dfss, dftp, dfb, dfse, ipsw, gtf, aipw,
                    rd, rd_bs, i, se, printed, rd_cell, point, draws, lost >>

\* ----------------------------------------------------- the paired bootstrap
\* Step 1: dfss = df.loc[df['S'] == 1].copy(); dftp = df.loc[df['S'] == 0].copy()
SampleSubset(d) == Loc(d, "S", 1)
\* mutant of TargetSubset: the selection on S left out (dftp = df.copy())
TargetSubsetUnfiltered(d) == d
TargetSubset(d) == Loc(d, "S", 0)

\* rd_bs = [] and the loop's iterator
Divide ==
    /\ At("boot", "start")
    /\ dfss' = SampleSubset(df)
    /\ dftp' = TargetSubset(df)
    /\ rd_bs' = <<>>
    /\ it' = 0
    /\ lost' = 0
    /\ pc' = [pc EXCEPT !.step = "for"]
    /\ UNCHANGED << disk, rng, df, dfs, dft, dfb, dfse, objects, rd, i, se,
                    printed, rd_cell, point, draws >>

\* mutant of HasNext: the iterator hands out one value more
HasNextInclusive(n) == n <= B

\* for i in range(200): whether the iterator has another value
HasNext(n) == n < B

\* a resample without a record at one of the two treatment levels
Degenerate(sample) == \E a \in {0, 1} : Len(Loc(sample, "A", a)) = 0

\* mutant of ResampleOf: the sample resample drawn from the resample the
\* replicate before left in dfs
ResampleOfPrevious(subset, s) ==
    IF subset = dfss /\ Len(dfs) = Len(dfss)
    THEN Sample(dfs, Len(subset), s)
    ELSE Sample(subset, Len(subset), s)

\* mutant of ResampleOf: one row short (n = shape[0] - 1)
ResampleOfShort(subset, s) == Sample(subset, Len(subset) - 1, s)

\* Step 2: dfs = dfss.sample(n=dfss.shape[0], replace=True)
ResampleOf(subset, s) == Sample(subset, Len(subset), s)

\* mutant of Resample: the resample assigned to the name of the original
\* subset (dfss = dfss.sample(...))
ResampleInPlace ==
    /\ At("boot", "for")
    /\ HasNext(it)
    /\ i' = it
    /\ it' = it + 1
    /\ dfs' = ResampleOf(dfss, rng)
    /\ dfss' = dfs'
    /\ dft' = ResampleOf(dftp, Advance(rng, Len(dfss)))
    /\ rng' = Advance(rng, Len(dfss) + Len(dftp))
    /\ draws' = [s |-> Draws(rng, Len(dfss), Len(dfss)),
                 t |-> Draws(Advance(rng, Len(dfss)), Len(dftp), Len(dftp))]
    /\ lost' = IF Degenerate(dfs') THEN lost + 1 ELSE lost
    /\ pc' = [pc EXCEPT !.step = "restack"]
    /\ UNCHANGED << disk, df, dftp, dfb, dfse, objects, rd, rd_bs, se,
                    printed, rd_cell, point >>

Resample ==
    /\ At("boot", "for")
    /\ HasNext(it)
    /\ i' = it
    /\ it' = it + 1
    /\ dfs' = ResampleOf(dfss, rng)
    /\ dft' = ResampleOf(dftp, Advance(rng, Len(dfss)))
    /\ rng' = Advance(rng, Len(dfss) + Len(dftp))
    /\ draws' = [s |-> Draws(rng, Len(dfss), Len(dfss)),
                 t |-> Draws(Advance(rng, Len(dfss)), Len(dftp), Len(dftp))]
    /\ lost' = IF Degenerate(dfs') THEN lost + 1 ELSE lost
    /\ pc' = [pc EXCEPT !.step = "restack"]
    /\ UNCHANGED << disk, df, dfss, dftp, dfb, dfse, objects, rd, rd_bs, se,
                    printed, rd_cell, point >>

\* Step 3: dfb = pd.concat([dfs, dft])
Restacked(a, b) == Concat(a, b)

Restack ==
    /\ At("boot", "restack")
    /\ dfb' = Restacked(dfs, dft)
    /\ pc' = [pc EXCEPT !.step = IF Cur.reweight THEN "iptw" ELSE "estimate"]
    /\ UNCHANGED << disk, rng, it, df, dfs, dft, dfss, dftp, dfse, objects, rd,
                    rd_bs, i, se, printed, rd_cell, point, draws, lost >>

\* mutant of Reweighted: the assignment dfse['iptw'] = ipt.iptw left out
ReweightedStale(sample) == sample

\* Step 4 of the observational cells: dfse = dfb.loc[dfb['S'] == 1].copy();
\* ipt = IPTW(dfse, ...); ipt.treatment_model(...); dfse['iptw'] = ipt.iptw
Reweighted(sample) == SetColumn(sample, "iptw", FitIPTW(sample, BootIPTWModel).iptw)

\* ... and dfb = pd.concat([dfse, dfb.loc[dfb['S'] == 0]], ignore_index=True,
\* sort=False)
Reweight ==
    /\ At("boot", "iptw")
    /\ ipt' = FitIPTW(SampleSubset(dfb), BootIPTWModel)
    /\ dfse' = Reweighted(SampleSubset(dfb))
    /\ dfb' = Concat(dfse', TargetSubset(dfb))
    /\ pc' = [pc EXCEPT !.step = "estimate"]
    /\ UNCHANGED << disk, rng, it, df, dfs, dft, dfss, dftp, ipsw, gtf, aipw, rd,
                    rd_bs, i, se, printed, rd_cell, point, draws, lost >>

\* mutant of Recorded: an undefined estimate is dropped
RecordedSkipNaN(list, x) == IF IsNaN(x) THEN list ELSE Append(list, x)

\* rd_bs.append(x)
Recorded(list, x) == Append(list, x)

\* the estimator step of a replicate: est = Estimator(dfb, ...); ...; est.fit();
\* rd_bs.append(est.risk_difference)
Estimate ==
    /\ At("boot", "estimate")
    /\ LET obj == Fit(Cur.est, dfb, Cur.wmodel, Cur.ymodel, Cur.weights)
       IN  /\ Bind(Cur, obj)
           /\ rd_bs' = Recorded(rd_bs, obj.risk_difference)
    /\ pc' = [pc EXCEPT !.step = "for"]
    /\ UNCHANGED << disk, rng, it, frames, ipt, rd, i, se, printed, rd_cell,
                    point, draws, lost >>

\* np.round(x, 3) of a number in thousandths
Round3(x) == x
\* the point estimate the two bounds are built around: the name rd
Centre == rd

\* the loop is over: se = np.std(rd_bs, ddof=1);
\* print('95% LCL:', np.round(rd - 1.96*se, 3)); print('95% UCL:', ...)
Report ==
    /\ At("boot", "for")
    /\ ~HasNext(it)
    /\ se' = Std(rd_bs)
    /\ printed' = Append(printed,
                         [cell |-> pc.cell,
                          lcl |-> Round3(Sub(Centre, HalfWidth(se'))),
                          ucl |-> Round3(Add(Centre, HalfWidth(se')))])
    /\ pc' = NextCell
    /\ UNCHANGED << disk, rng, it, frames, objects, rd, rd_bs, i, rd_cell,
                    point, draws, lost >>

Next ==
    \/ Load
    \/ SampleEffect
    \/ PointEstimate
    \/ TreatmentWeights
    \/ Divide
    \/ Resample
    \/ Restack
    \/ Reweight
    \/ Estimate
    \/ Report

Spec == Init /\ [][Next]_vars

\* ------------------------------------- the estimators on their own
\* the data of the randomized section as loaded
LoadedRCT == WithWsq(load_generalize_data(disk, FALSE))
\* the data of the observational section as loaded
LoadedObs == WithWsq(load_generalize_data(disk, TRUE))
\* d after the cell that computes and merges the treatment weights
Merged(d) ==
    LET sample == TreatmentModelInput(d)
    IN  Concat(SetColumn(sample, "iptw", IPTW_iptw(sample, MergeIPTW.wmodel)),
               Loc(d, "S", 0))
\* the data of the observational section after the treatment weights are merged
MergedObs == Merged(LoadedObs)

\* A data file for the estimators on their own: the (Y, L, A) of each sample
\* record as a code 4*Y + 2*L + A and the L of each target record, both in
\* non-decreasing order (the estimators do not read the order of the rows).
SampleCodes ==
    {f \in [1..NS -> 0..7] : \A k \in 1..(NS - 1) : f[k] <= f[k + 1]}
TargetCodes ==
    {f \in [1..NT -> 0..1] : \A k \in 1..(NT - 1) : f[k] <= f[k + 1]}
Files == [s : SampleCodes, t : TargetCodes]

\* the data set of a file, as load_generalize_data and the W_sq cell give it
FileData(file) ==
    WithWsq([k \in 1..(NT + NS) |->
        IF k <= NT
        THEN [id |-> k, S |-> 0, Y |-> NaN, A |-> NaN,
              L |-> file.t[k], W |-> 2 * file.t[k]]
        ELSE LET c == file.s[k - NT]
             IN  [id |-> k, S |-> 1, Y |-> c \div 4, A |-> c % 2,
                  L |-> (c \div 2) % 2, W |-> 2 * ((c \div 2) % 2)]])

\* sampling-weight formulas: the notebook's, and the one without covariates
WeightModels == {PointAIPSW_RCT.wmodel, "1"}
\* outcome formulas: the notebook's, and the one with the treatment alone
OutcomeModels == {PointAIPSW_RCT.ymodel, "A"}

EstimatorsInit ==
    /\ disk \in Files
    /\ rng = 0
    /\ pc = [cell |-> 0, step |-> "models"]
    /\ it = 0
    /\ df = <<>> /\ dfs = <<>> /\ dft = <<>> /\ dfss = <<>> /\ dftp = <<>>
    /\ dfb = <<>> /\ dfse = <<>>
    /\ ipt = Unbound /\ ipsw = Unbound /\ gtf = Unbound /\ aipw = Unbound
    /\ rd = Unbound /\ rd_bs = <<>> /\ i = Unbound /\ se = Unbound
    /\ printed = <<>>
    /\ rd_cell = 0 /\ point = Unbound /\ draws = <<>> /\ lost = 0

\* the cells of a section up to the point estimates, run on the data of a
\* file with a sampling-weight formula and an outcome formula:
\* rd = RiskDifference(); rd.fit(dfs, ...); [the treatment weights merged;]
\* ipsw = IPSW(df, ...); gtf = GTransportFormula(df, ...); aipw = AIPSW(df, ...)
FitEstimators ==
    /\ pc = [cell |-> 0, step |-> "models"]
    /\ \E confounding \in BOOLEAN, wm \in WeightModels, ym \in OutcomeModels :
          LET data == IF confounding THEN Merged(FileData(disk)) ELSE FileData(disk)
              weights == IF confounding THEN "iptw" ELSE "None"
          IN  /\ df' = data
              /\ dfs' = Loc(FileData(disk), "S", 1)
              /\ rd' = [kind |-> "RiskDifference", df |-> dfs',
                        risk_difference |-> Crude_risk_difference(dfs')]
              /\ ipsw' = Fit("IPSW", data, wm, "None", weights)
              /\ gtf' = Fit("GTransportFormula", data, "None", ym, "None")
              /\ aipw' = Fit("AIPSW", data, wm, ym, weights)
    /\ pc' = [cell |-> 0, step |-> "fitted"]
    /\ UNCHANGED << disk, rng, it, dft, dfss, dftp, dfb, dfse, ipt, rd_bs, i,
                    se, printed, rd_cell, point, draws, lost >>

EstimatorsSpec == EstimatorsInit /\ [][FitEstimators]_vars

\* ------------------------------------------------------- claims: helpers
\* the estimator object the cell of configuration c binds
ObjectOf(c) ==
    CASE c.est = "IPSW" -> ipsw
      [] c.est = "GTransportFormula" -> gtf
      [] c.est = "AIPSW" -> aipw

\* in a bootstrap cell
InBoot == ~Done /\ Cur.op = "boot"
\* in a bootstrap cell, a replicate has restacked its two resamples
Restacked_Now == InBoot /\ pc.step \in {"iptw", "estimate"}
\* in a bootstrap cell, the estimator of a replicate has just been fitted
Fitted_Now == InBoot /\ pc.step = "for" /\ it > 0
\* the cell before the current one was a bootstrap cell: its bounds are printed
JustReported == pc.step = "start" /\ pc.cell > 1 /\ Notebook[pc.cell - 1].op = "boot"
LastPrinted == printed[Len(printed)]
HasNaN(xs) == \E k \in 1..Len(xs) : IsNaN(xs[k])

\* C1: in every bootstrap cell the printed bounds are rd -/+ 1.96 * se with se
\* the n-1 standard deviation of the recorded replicates and rd the point
\* estimate of the same estimator on the original data, bound by the
\* point-estimate cell that precedes the bootstrap cell
C1_BoundsAroundOwnPointEstimate ==
    JustReported =>
        /\ rd_cell = pc.cell - 2
        /\ point.kind = Notebook[pc.cell - 1].est
        /\ LastPrinted.lcl = Round3(Sub(point.risk_difference, HalfWidth(Std(rd_bs))))
        /\ LastPrinted.ucl = Round3(Add(point.risk_difference, HalfWidth(Std(rd_bs))))

\* C2: the estimator a replicate fits on the concatenation is the estimator of
\* the point estimate: same class, same model formulas, same weights argument
C2_ReplicateRunsPointEstimator ==
    Fitted_Now =>
        /\ ObjectOf(Cur).df = dfb
        /\ ObjectOf(Cur).kind = point.kind
        /\ ObjectOf(Cur).wmodel = point.wmodel
        /\ ObjectOf(Cur).ymodel = point.ymodel
        /\ ObjectOf(Cur).weights = point.weights

\* the rows of a DataFrame, as a set
RowSet(d) == {d[k] : k \in 1..Len(d)}
\* a row without its iptw column
NoIPTW(r) == [c \in (DOMAIN r) \ {"iptw"} |-> r[c]]
\* the number of rows of d with sample flag v
Flagged(d, v) == Len(Loc(d, "S", v))

\* C3: in every replicate the sample resample is drawn from the sample subset
\* only and has its size, the target resample is drawn from the target subset
\* only and has its size, each is the rows at the positions of its own draw,
\* and the concatenation handed to the estimator has the original numbers of
\* S = 1 and S = 0 records
C3_PairedResample ==
    /\ (InBoot /\ (pc.step \in {"restack", "iptw", "estimate"} \/ Fitted_Now)) =>
          /\ Len(dfs) = Len(dfss) /\ RowSet(dfs) \subseteq RowSet(dfss)
          /\ Len(dft) = Len(dftp) /\ RowSet(dft) \subseteq RowSet(dftp)
          /\ dfs = Take(SampleSubset(df), draws.s)
          /\ dft = Take(TargetSubset(df), draws.t)
          /\ \A k \in 1..Len(dfs) : dfs[k]["S"] = 1
          /\ \A k \in 1..Len(dft) : dft[k]["S"] = 0
    /\ (Restacked_Now \/ Fitted_Now) =>
          /\ Flagged(dfb, 1) = Flagged(df, 1)
          /\ Flagged(dfb, 0) = Flagged(df, 0)
          /\ Len(dfb) = Len(df)
    /\ Fitted_Now =>
          /\ Flagged(ObjectOf(Cur).df, 1) = Flagged(df, 1)
          /\ Flagged(ObjectOf(Cur).df, 0) = Flagged(df, 0)

\* C3 witness: a fitted replicate whose sample resample repeats a record and
\* leaves another out, and whose target resample does too
C3_Witness ==
    /\ Fitted_Now
    /\ \E j, k \in 1..Len(dfs) : j # k /\ dfs[j] = dfs[k]
    /\ RowSet(dfs) # RowSet(dfss)
    /\ RowSet(dft) # RowSet(dftp)

\* C4: in the observational bootstrap cells the weight every resampled sample
\* record carries when the estimator is fitted is the one the treatment model
\* gives on this replicate's resampled sample subset, and the treatment model
\* was fitted on exactly that subset
C4_FreshTreatmentWeights ==
    /\ (InBoot /\ Cur.reweight /\ pc.step = "estimate") =>
          /\ ipt.df = dfs
          /\ SampleSubset(dfb) = SetColumn(dfs, "iptw", IPTW_iptw(dfs, BootIPTWModel))
    /\ (Fitted_Now /\ Cur.reweight) =>
          /\ ObjectOf(Cur).weights = "iptw"
          /\ ipt.df = dfs
          /\ SampleSubset(ObjectOf(Cur).df) =
                SetColumn(dfs, "iptw", IPTW_iptw(dfs, BootIPTWModel))

\* C4 witness: a fitted observational replicate in which the fresh weight of a
\* resampled record differs from the weight the record had in the original data
C4_Witness ==
    /\ Fitted_Now /\ Cur.reweight
    /\ \E k \in 1..Len(dfs) : SampleSubset(ObjectOf(Cur).df)[k]["iptw"] # dfs[k]["iptw"]

\* an estimator object fitted with the auxiliary weight column
Weighted(obj) == obj.kind \in {"IPSW", "AIPSW"} /\ obj.weights = "iptw"
\* every sample record of d carries a weight, no target record does
OneWeightPerSampleRecord(d) ==
    \A k \in 1..Len(d) : IsNaN(d[k]["iptw"]) <=> d[k]["S"] = 0

\* C5: in the observational section the treatment weights are computed from
\* the sample records only and before any weighted estimator is fitted; the
\* data set a weighted estimator is fitted on carries exactly one weight per
\* sample record and none on a target record, and the merged data set is the
\* loaded data set with that column added
C5_WeightsFromSampleOnly ==
    /\ \A obj \in {ipsw, aipw} : Weighted(obj) =>
          /\ ipt.kind = "IPTW"
          /\ \A k \in 1..Len(ipt.df) : ipt.df[k]["S"] = 1
          /\ Len(ipt.iptw) = Len(ipt.df)
          /\ Len(ipt.iptw) = Flagged(obj.df, 1)
          /\ OneWeightPerSampleRecord(obj.df)
    /\ (pc.cell > 10) =>
          /\ OneWeightPerSampleRecord(df)
          /\ [k \in 1..Flagged(df, 1) |-> NoIPTW(SampleSubset(df)[k])] = SampleSubset(LoadedObs)
          /\ [k \in 1..Flagged(df, 0) |-> NoIPTW(TargetSubset(df)[k])] = TargetSubset(LoadedObs)
    /\ (pc.cell = 11 /\ pc.step = "start") =>
          /\ ipt.df = SampleSubset(LoadedObs)
          /\ SampleSubset(df) = SetColumn(ipt.df, "iptw", ipt.iptw)
          /\ ~Weighted(ipsw) /\ ~Weighted(aipw)

\* C5 witness: the observational IPSW point estimate has been fitted with the
\* weights, and the weights are not all 1
C5_Witness ==
    /\ pc.cell = 12 /\ pc.step = "start"
    /\ Weighted(ipsw)
    /\ \E k \in 1..Len(ipt.iptw) : ipt.iptw[k] # 1000

\* the missing-data structure of a data set
Structural(d) ==
    \A k \in 1..Len(d) :
        /\ d[k]["S"] = 1 => Observed(d[k])
        /\ d[k]["S"] = 0 => Unobserved(d[k])

\* C6: in every data set handed to an estimator (the loaded one, the one after
\* the IPTW merge, every bootstrap concatenation) a record with S = 1 has
\* outcome and treatment, a record with S = 0 has neither
C6_MissingByDesign ==
    /\ Structural(df)
    /\ Structural(dfb)
    /\ \A obj \in {ipsw, gtf, aipw, point} : obj.kind # "Unbound" => Structural(obj.df)

\* C6 witness: an observational replicate, after the merge and the reweighting,
\* has fitted its estimator on a concatenation holding both kinds of record
C6_Witness ==
    /\ Fitted_Now /\ Cur.reweight
    /\ Flagged(ObjectOf(Cur).df, 1) > 0 /\ Flagged(ObjectOf(Cur).df, 0) > 0
    /\ "iptw" \in Columns(df)

\* the bounds of bootstrap cell c have been printed
Printed(c) == \E k \in 1..Len(printed) : printed[k].cell = c

\* the replicate counts of a bootstrap cell
C7_Counts ==
    /\ (InBoot /\ pc.step = "for") => Len(rd_bs) = it /\ it <= B
    /\ (InBoot /\ pc.step \in {"restack", "iptw", "estimate"}) =>
          /\ Len(rd_bs) = it - 1 /\ it <= B
          /\ i = it - 1
    /\ (InBoot /\ pc.step # "start") => ~Printed(pc.cell)
    /\ JustReported =>
          /\ Len(rd_bs) = B /\ it = B /\ i = B - 1
          /\ se = Std(rd_bs)
          /\ Len(printed) > 0 /\ LastPrinted.cell = pc.cell - 1
    /\ \A k \in 1..Len(printed) : printed[k].cell < pc.cell

\* how far the notebook has run: the cell, and within a bootstrap cell the
\* replicate and its step
Progress ==
    pc.cell * (4 * B + 8) +
    (CASE pc.step = "start" -> 0
       [] pc.step = "for" -> 4 * it + 1
       [] pc.step = "restack" -> 4 * it - 2
       [] pc.step = "iptw" -> 4 * it - 1
       [] pc.step = "estimate" -> 4 * it)

\* before the end of the notebook the position is one a statement runs from
Runnable ==
    ~Done =>
        \/ pc.step = "start"
        \/ Cur.op = "boot" /\ pc.step \in {"for", "restack", "estimate"}
        \/ Cur.op = "boot" /\ Cur.reweight /\ pc.step = "iptw"

\* C7: every bootstrap loop ends, after exactly B = 200 replicates (every step
\* moves forward towards the end of the notebook, from a position a statement
\* runs from, and the loop is left with the iterator at B); a replicate records
\* exactly one risk difference, so the list has length B when the loop is
\* left; the standard deviation and the bounds are computed only then
C7_ExactlyBReplicates ==
    /\ [](C7_Counts /\ Runnable)
    /\ [][Progress' > Progress /\ Progress' <= (Len(Notebook) + 1) * (4 * B + 8)]_vars

\* C7 witness: the last bootstrap cell has printed its bounds from B results
C7_Witness ==
    /\ Done
    /\ Len(rd_bs) = B /\ it = B
    /\ Len(printed) = 5

\* C8: while a bootstrap cell runs its replicates and prints its bounds, the
\* original sample subset, the original target subset, the combined data set
\* and the stored point estimate do not change, and the two subsets stay the
\* S = 1 and the S = 0 records of the combined data set
C8_ReplicatesLeaveOriginals ==
    [][(InBoot /\ pc.step # "start") =>
          /\ dfss' = dfss /\ dftp' = dftp /\ df' = df /\ rd' = rd
          /\ dfss = SampleSubset(df) /\ dftp = TargetSubset(df)
          /\ dfss' = SampleSubset(df') /\ dftp' = TargetSubset(df')]_vars

\* C8 witness: all B replicates of an observational cell have run, the last
\* resample differs from the original sample subset, which is still in place
C8_Witness ==
    /\ InBoot /\ Cur.reweight /\ pc.step = "for" /\ it = B
    /\ dfs # dfss
    /\ dfss = SampleSubset(df)

\* the data set a replicate fits its estimator on, from the two original
\* subsets and the replicate's own draw
ReplicateData(c, sample, target, dr) ==
    IF c.reweight
    THEN Concat(Reweighted(Take(sample, dr.s)), Take(target, dr.t))
    ELSE Concat(Take(sample, dr.s), Take(target, dr.t))
\* ... and the risk difference the replicate records
ReplicateRD(c, sample, target, dr) ==
    Fit(c.est, ReplicateData(c, sample, target, dr), c.wmodel, c.ymodel,
        c.weights).risk_difference

\* xs from its last element to its first
Reverse(xs) == [k \in 1..Len(xs) |-> xs[Len(xs) + 1 - k]]
\* xs with its first k elements moved to the end
Rotate(xs, k) == SubSeq(xs, k + 1, Len(xs)) \o SubSeq(xs, 1, k)

C10_UndefinedPropagates ==
    /\ (Fitted_Now /\ Degenerate(dfs)) =>
          /\ Len(rd_bs) = it
          /\ IsNaN(rd_bs[Len(rd_bs)])
          /\ IsNaN(ObjectOf(Cur).risk_difference)
    /\ Fitted_Now => Len(rd_bs) = it
    /\ (InBoot /\ pc.step \in {"restack", "iptw", "estimate"}) => Len(rd_bs) = it - 1
    /\ (JustReported /\ (lost > 0 \/ HasNaN(rd_bs))) =>
          /\ Len(rd_bs) = B
          /\ HasNaN(rd_bs)
          /\ IsNaN(se)
          /\ IsNaN(LastPrinted.lcl) /\ IsNaN(LastPrinted.ucl)

\* C10 witness: a cell has printed its bounds from a list in which a
\* replicate whose sample resample lacked a treatment level recorded an
\* undefined value and another replicate a defined one
C10_Witness ==
    /\ JustReported
    /\ lost > 0
    /\ HasNaN(rd_bs)
    /\ \E k \in 1..Len(rd_bs) : ~IsNaN(rd_bs[k])
    /\ IsNaN(LastPrinted.lcl) /\ IsNaN(LastPrinted.ucl)

\* the data set the last point-estimate cell was given, from the data files
PointData == IF pc.cell >= 12 THEN MergedObs ELSE LoadedRCT
\* a point-estimate cell has run
HasPoint == point.kind # "Unbound"

\* the last point estimate is the estimator's value on the data as read from
\* the files, and a second fit on the data set at hand returns the same object
Reproducible ==
    /\ point.df = PointData
    /\ point = Fit(point.kind, PointData, point.wmodel, point.ymodel, point.weights)
    /\ Fit(point.kind, df, point.wmodel, point.ymodel, point.weights).risk_difference
          = point.risk_difference
    /\ Fit(point.kind, df, point.wmodel, point.ymodel, point.weights).risk_ratio
          = point.risk_ratio

Close(x, y) ==
    \/ IsNaN(x) /\ IsNaN(y)
    \/ ~IsNaN(x) /\ ~IsNaN(y) /\ (x - y) \in -5..5
\* the three estimators have been fitted on their own
Fitted3 == pc = [cell |-> 0, step |-> "fitted"]
\* a formula under which the fit is saturated in the covariates of the data
Saturated(formula) == Covariates(formula) = {"L", "W", "W_sq"}

InCellOf(d, formula, r, v) ==
    LET Same(x) == x["S"] = v /\ Cell(x, formula) = Cell(r, formula)
    IN  Len(SelectSeq(d, Same))
\* the odds of not being sampled in the cell of r, counted over all records,
\* times the auxiliary weight of r
OddsWeight(d, formula, weights, r) ==
    Mul(Ratio(InCellOf(d, formula, r, 0), InCellOf(d, formula, r, 1)),
        AuxWeight(r, weights))
\* the mean of the outcome over the sample records of d with treatment a,
\* weighted by OddsWeight
OddsWeightedMean(d, formula, weights, a) ==
    LET Arm(x) == x["S"] = 1 /\ x["A"] = a
        arm == SelectSeq(d, Arm)
    IN  Ratio(SeqSum([k \in 1..Len(arm) |->
                        OddsWeight(d, formula, weights, arm[k]) * arm[k]["Y"]]),
              SeqSum([k \in 1..Len(arm) |-> OddsWeight(d, formula, weights, arm[k])]))
\* d with another outcome and another treatment on its target records
TargetOverwritten(d) ==
    [k \in 1..Len(d) |->
        IF d[k]["S"] = 0 THEN [d[k] EXCEPT !["Y"] = 1, !["A"] = 1] ELSE d[k]]
\* x and y agree up to 1 percent of y and the rounding of a thousandth
Near(x, y) == (100 * (x - y)) \in (-(y + 500))..(y + 500)

\* C13: the weight IPSW gives a sample record is (1 - p) / p, with p the share
\* of sample records among all the records (sample and target) of its
\* covariate cell, times the auxiliary weight when there is one; the risk
\* difference is the weighted mean outcome of the treated sample records minus
\* that of the untreated ones, and does not read the target records' outcome
C13_SamplingWeights ==
    Fitted3 =>
        /\ \A k \in 1..Len(df) : df[k]["S"] = 1 =>
              /\ PrSample(df, ipsw.wmodel, df[k]) =
                    Ratio(InCellOf(df, ipsw.wmodel, df[k], 1),
                          InCellOf(df, ipsw.wmodel, df[k], 1)
                             + InCellOf(df, ipsw.wmodel, df[k], 0))
              /\ Near(SamplingWeight(df, ipsw.wmodel, ipsw.weights, df[k]),
                      OddsWeight(df, ipsw.wmodel, ipsw.weights, df[k]))
        /\ Close(ipsw.risk_difference,
                 Sub(OddsWeightedMean(df, ipsw.wmodel, ipsw.weights, 1),
                     OddsWeightedMean(df, ipsw.wmodel, ipsw.weights, 0)))
        /\ ipsw.risk_difference =
              IPSW_risk_difference(TargetOverwritten(df), ipsw.wmodel, ipsw.weights)

\* C13 witness: IPSW fitted with the treatment weights on data whose sample
\* records get different sampling weights, with a defined, non-zero estimate
C13_Witness ==
    /\ Fitted3
    /\ ipsw.weights = "iptw" /\ Saturated(ipsw.wmodel)
    /\ ~IsNaN(ipsw.risk_difference) /\ ipsw.risk_difference # 0
    /\ \E j, k \in 1..Len(df) :
          /\ df[j]["S"] = 1 /\ df[k]["S"] = 1
          /\ PrSample(df, ipsw.wmodel, df[j]) # PrSample(df, ipsw.wmodel, df[k])
          /\ df[j]["iptw"] # df[k]["iptw"]
          /\ SamplingWeight(df, ipsw.wmodel, ipsw.weights, df[j]) > 0
          /\ SamplingWeight(df, ipsw.wmodel, ipsw.weights, df[k]) > 0

\* the sample records and the target records of d have the same distribution
\* over the covariate cells of the formula
SameCovariateDistribution(d, formula) ==
    \A k \in 1..Len(d) :
        InCellOf(d, formula, d[k], 1) * Flagged(d, 0)
            = InCellOf(d, formula, d[k], 0) * Flagged(d, 1)

\* C14: on a data set whose sample and target records have the same covariate
\* distribution, every IPSW weight is 1 up to 1 percent and the IPSW risk
\* difference is the unweighted risk difference of the sample
C14_IdenticalDistributions ==
    (/\ Fitted3
     /\ ipsw.weights = "None" /\ Saturated(ipsw.wmodel)
     /\ SameCovariateDistribution(df, ipsw.wmodel)) =>
        /\ \A k \in 1..Len(df) : df[k]["S"] = 1 =>
              Near(SamplingWeight(df, ipsw.wmodel, ipsw.weights, df[k]), 1000)
        /\ Close(ipsw.risk_difference, rd.risk_difference)

\* the mean outcome of the sample records of d with treatment a and L = l
StratumRisk(d, a, l) ==
    LET In(x) == x["S"] = 1 /\ x["A"] = a /\ x["L"] = l
        stratum == SelectSeq(d, In)
    IN  Ratio(SeqSum([k \in 1..Len(stratum) |-> stratum[k]["Y"]]), Len(stratum))
\* the mean outcome of the sample records of d with treatment a
ArmRisk(d, a) ==
    LET In(x) == x["S"] = 1 /\ x["A"] = a
        arm == SelectSeq(d, In)
    IN  Ratio(SeqSum([k \in 1..Len(arm) |-> arm[k]["Y"]]), Len(arm))
\* the number of target records of d with L = l
TargetsWith(d, l) ==
    LET In(x) == x["S"] = 0 /\ x["L"] = l IN Len(SelectSeq(d, In))
\* the stratum risks of treatment a averaged over the target records' L
TargetStandardized(d, a) ==
    LET Part(l) == IF TargetsWith(d, l) = 0 THEN 0
                   ELSE IF IsNaN(StratumRisk(d, a, l)) THEN NaN
                   ELSE TargetsWith(d, l) * StratumRisk(d, a, l)
    IN  IF Flagged(d, 0) = 0 THEN NaN
        ELSE IF IsNaN(Add(Part(0), Part(1))) THEN NaN
        ELSE Add(Part(0), Part(1)) \div Flagged(d, 0)

WithFlag(v, d) == Loc(d, "S", v)
\* the identifiers of the records of d
Ids(d) == {d[k]["id"] : k \in 1..Len(d)}
\* d holds NS sample records and NT target records and nothing else
FullCounts(d) ==
    /\ Flagged(d, 1) = NS /\ Flagged(d, 0) = NT
    /\ Len(d) = NS + NT
\* the two subsets of d by the flag S share no record, and every record of d
\* is in one of them
Partitioned(d) ==
    /\ Ids(WithFlag(1, d)) \cap Ids(WithFlag(0, d)) = {}
    /\ Ids(WithFlag(1, d)) \cup Ids(WithFlag(0, d)) = Ids(d)
    /\ Len(WithFlag(1, d)) + Len(WithFlag(0, d)) = Len(d)
\* d holds every record of the data files once, each with the flag it has there
SameRecords(d) ==
    /\ Cardinality(Ids(d)) = Len(d)
    /\ Ids(WithFlag(1, d)) = Ids(WithFlag(1, LoadedRCT))
    /\ Ids(WithFlag(0, d)) = Ids(WithFlag(0, LoadedRCT))

\* C16: the data set as loaded and as rebuilt by the merge of the treatment
\* weights holds every record once, NS with S = 1 and NT with S = 0 (486 and
\* 2514 in the shipped data); the two subsets a bootstrap cell takes share no
\* record and together are the data set; every bootstrap concatenation and
\* every data set an estimator is fitted on has the same two counts, and each
\* of its records comes from the original subset with its own flag
C16_PartitionCounts ==
    /\ (pc.cell >= 2) =>
          /\ FullCounts(df) /\ Partitioned(df) /\ SameRecords(df)
    /\ (InBoot /\ pc.step # "start") =>
          /\ dfss = Loc(df, "S", 1) /\ dftp = Loc(df, "S", 0)
          /\ Len(dfss) = NS /\ Len(dftp) = NT
          /\ Ids(dfss) \cap Ids(dftp) = {}
          /\ Ids(dfss) \cup Ids(dftp) = Ids(df)
    /\ (Restacked_Now \/ Fitted_Now) =>
          /\ FullCounts(dfb) /\ Partitioned(dfb)
          /\ Ids(WithFlag(1, dfb)) \subseteq Ids(dfss)
          /\ Ids(WithFlag(0, dfb)) \subseteq Ids(dftp)
    /\ \A obj \in {ipsw, gtf, aipw, point} : obj.kind # "Unbound" =>
          /\ FullCounts(obj.df)
          /\ Ids(WithFlag(1, obj.df)) \subseteq Ids(WithFlag(1, LoadedRCT))
          /\ Ids(WithFlag(0, obj.df)) \subseteq Ids(WithFlag(0, LoadedRCT))

\* C16 witness: after the merge of the treatment weights, a replicate of an
\* observational bootstrap cell has fitted its estimator on a concatenation
\* with the two counts in which a sample record is repeated
C16_Witness ==
    /\ Fitted_Now /\ Cur.reweight
    /\ "iptw" \in Columns(df)
    /\ FullCounts(dfb) /\ FullCounts(ObjectOf(Cur).df)
    /\ Cardinality(Ids(WithFlag(1, dfb))) < NS
=============================================================================
